---- MODULE Spec2Model ----
(***************************************************************************)
(* A model of the preprocessing helpers of surgeon/utils.py (label_encoder, *)
(* train_test_split, normalize, hvg_batch) and of the kernel dispatch of    *)
(* surgeon/models/_utils.py (compute_kernel).                               *)
(*                                                                          *)
(* The functions are stateless: every call starts from the idle state, and  *)
(* the variables of the functions that are not running keep their defaults. *)
(* The external collaborators (scanpy's statistics, sklearn's LabelEncoder, *)
(* numpy's shuffle) are modelled by what they hand back to this code: any   *)
(* gene table, the sorted-unique class list, any permutation.               *)
(***************************************************************************)
EXTENDS Integers, Sequences, FiniteSets, TLC

\* ------------------------------------------------------------------ bounds
MaxGenes == 3       \* genes in the table handed to hvg_batch
MaxBatches == 2     \* categories of the batch column
MaxDisp == 1        \* normalized dispersions are drawn from 0..MaxDisp
MaxBelow == 2       \* how far below level 0 the fallback loop is followed
MaxRows == 5        \* rows of the matrix handed to train_test_split
FracDen == 5        \* train_frac is drawn from 0/FracDen .. FracDen/FracDen
MaxLabelRows == 3   \* rows of the data handed to label_encoder
MaxCode == 2        \* a mapping's codes are drawn from 0..MaxCode
MaxDim == 2         \* rows and columns of the tensors handed to compute_kernel
MaxCells == 2       \* rows of the count matrix handed to normalize
MaxVars == 2        \* columns of the count matrix handed to normalize

MaxTarget == MaxGenes + 1

VARIABLES
    op,             \* the function that was called ("idle" before any call)
    var,            \* hvg_batch: adata_hvg.var, one row per gene
    n_batches,      \* hvg_batch: len(adata_hvg.obs[batch_key].cat.categories)
    target_genes,   \* hvg_batch: the argument
    hvg,            \* hvg_batch: the gene list built so far
    not_n_batches,  \* hvg_batch: the loop's level offset (0: not yet bound)
    enough,         \* hvg_batch: the loop's flag
    hvg_pc,         \* hvg_batch: "idle", "loop" (at the while test), "done" (returned)
    n_rows,         \* train_test_split: adata.shape[0]
    train_frac,     \* train_test_split: the argument, <<numerator, denominator>>
    train_idx,      \* train_test_split: the rows of train_data
    test_idx,       \* train_test_split: the rows of valid_data
    le_obs,         \* label_encoder: adata.obs[condition_key] of the latest call
    le_arg,         \* label_encoder: the label_encoder argument of the latest call
    le_ret,         \* label_encoder: what the latest call returned, or that it raised
    le_fit,         \* label_encoder: the call that fitted a new encoder, once made
    encoders,       \* the LabelEncoder objects alive: object id -> classes_
    ck_args,        \* compute_kernel: the arguments
    ck_ret,         \* compute_kernel: the value returned
    norm_args,      \* normalize: filter_min_counts, size_factors, logtrans_input, n_top_genes
    X,              \* normalize: the count matrix passed in, X[cell][gene]
    adata,          \* normalize: the rows and columns adata holds, and what was applied to it
    adata_count,    \* normalize: the raw-count copy (None before it is made)
    norm_pc         \* normalize: the stage that runs next

hvg_vars == <<var, n_batches, target_genes, hvg, not_n_batches, enough, hvg_pc>>
tts_vars == <<n_rows, train_frac, train_idx, test_idx>>
le_vars == <<le_obs, le_arg, le_ret, le_fit, encoders>>
ck_vars == <<ck_args, ck_ret>>
norm_vars == <<norm_args, X, adata, adata_count, norm_pc>>
vars == <<op, hvg_vars, tts_vars, le_vars, ck_vars, norm_vars>>

\* ------------------------------------------------------------ sequences
Range(s) == {s[i] : i \in 1..Len(s)}

Min(a, b) == IF a < b THEN a ELSE b

Max(a, b) == IF a < b THEN b ELSE a

\* Python's s[:k]: the first k items, or all but the last -k when k < 0.
TakeAll(s, k) == s

Take(s, k) == IF k >= 0 THEN SubSeq(s, 1, Min(k, Len(s)))
              ELSE SubSeq(s, 1, Max(Len(s) + k, 0))

\* The orders a set can be laid out in.
Perms(S) == {p \in [1..Cardinality(S) -> S] :
                \A i, j \in 1..Cardinality(S) : i # j => p[i] # p[j]}

\* ------------------------------------------------------------ hvg_batch
\* The rows scanpy's highly_variable_genes leaves in adata_hvg.var.
VarRows(nb) == [highly_variable_nbatches : 0..nb, dispersions_norm : 0..MaxDisp]

\* The index of a boolean-masked column: the genes passing, in table order.
Masked(v, P(_)) == SelectSeq([i \in 1..Len(v) |-> i], P)

\* var['dispersions_norm'][var.highly_variable_nbatches > n_batches - 1]
AllBatchMaskLoose(v, nb) ==
    LET P(i) == v[i].highly_variable_nbatches >= nb - 1 IN Masked(v, P)

AllBatchMask(v, nb) ==
    LET P(i) == v[i].highly_variable_nbatches > nb - 1 IN Masked(v, P)

\* the level the loop queries: n_batches - not_n_batches
LevelSkipping(nb, nnb) == nb - nnb - 1

Level(nb, nnb) == nb - nnb

\* var['dispersions_norm'][var.highly_variable_nbatches == level]
LevelMask(v, level) ==
    LET P(i) == v[i].highly_variable_nbatches = level IN Masked(v, P)

\* sort_values(ascending=False): pandas' default quicksort is not stable, so
\* genes of equal dispersion come out in any order.
Unsorted(v, genes) == {genes}

sort_values(v, genes) ==
    {p \in Perms(Range(genes)) :
        \A i, j \in 1..Len(genes) :
            i < j => v[p[i]].dispersions_norm >= v[p[j]].dispersions_norm}

\* Lines 127-139: the all-batch set, then either the truncation or the loop's
\* initial state.
HvgEntry(v, nb, target) ==
    {IF Len(s) > target
        THEN [hvg |-> Take(s, target), not_n_batches |-> 0,
              enough |-> FALSE, pc |-> "done"]
        ELSE [hvg |-> s, not_n_batches |-> 1, enough |-> FALSE, pc |-> "loop"]
     : s \in sort_values(v, AllBatchMask(v, nb))}

\* Lines 142-156: one pass of the while body.
HvgLoopBody(v, nb, target, h) ==
    LET target_genes_diff == target - Len(h.hvg)
        tmp_dispersions == LevelMask(v, Level(nb, h.not_n_batches))
    IN IF Len(tmp_dispersions) < target_genes_diff
          THEN {[hvg |-> h.hvg \o tmp_dispersions,
                 not_n_batches |-> h.not_n_batches + 1,
                 enough |-> FALSE, pc |-> "loop"]}
          ELSE {[hvg |-> h.hvg \o Take(s, target_genes_diff),
                 not_n_batches |-> h.not_n_batches,
                 enough |-> TRUE, pc |-> "done"]
                : s \in sort_values(v, tmp_dispersions)}

HvgState == [hvg |-> hvg, not_n_batches |-> not_n_batches,
             enough |-> enough, pc |-> hvg_pc]

HvgSet(h) ==
    /\ hvg' = h.hvg
    /\ not_n_batches' = h.not_n_batches
    /\ enough' = h.enough
    /\ hvg_pc' = h.pc

\* hvg_batch(adata, batch_key, target_genes): up to the while test or, when the
\* all-batch set is larger than target_genes, to the return.
hvg_batch ==
    /\ op = "idle"
    /\ \E nb \in 1..MaxBatches, g \in 0..MaxGenes, target \in 0..MaxTarget :
          \E v \in [1..g -> VarRows(nb)] :
             \E h \in HvgEntry(v, nb, target) :
                /\ op' = "hvg_batch"
                /\ var' = v
                /\ n_batches' = nb
                /\ target_genes' = target
                /\ HvgSet(h)
    /\ UNCHANGED <<tts_vars, le_vars, ck_vars, norm_vars>>

\* One iteration of `while not enough`. The loop has no exit but enough; the
\* model follows not_n_batches up to n_batches + MaxBelow.
hvg_batch_while ==
    /\ op = "hvg_batch"
    /\ hvg_pc = "loop"
    /\ ~enough
    /\ not_n_batches < n_batches + MaxBelow
    /\ \E h \in HvgLoopBody(var, n_batches, target_genes, HvgState) : HvgSet(h)
    /\ UNCHANGED <<op, var, n_batches, target_genes>>
    /\ UNCHANGED <<tts_vars, le_vars, ck_vars, norm_vars>>


\* ------------------------------------------------------ train_test_split
\* int(x) of a ratio num/den: truncation toward zero.
int(num, den) == IF num >= 0 THEN num \div den ELSE -((-num) \div den)

\* Python's s[k:] for 0 <= k.
DropOneMore(s, k) == SubSeq(s, k + 2, Len(s))

Drop(s, k) == SubSeq(s, Min(k, Len(s)) + 1, Len(s))

\* np.arange(n), as a set: np.random.shuffle leaves any order of it.
arange(n) == 0..(n - 1)

\* train_test_split(adata, train_frac), train_frac = num/FracDen.
train_test_split ==
    /\ op = "idle"
    /\ \E n \in 0..MaxRows, num \in 0..FracDen :
          \E indices \in Perms(arange(n)) :
             LET train_size == int(n * num, FracDen)
             IN /\ n_rows' = n
                /\ train_frac' = <<num, FracDen>>
                /\ train_idx' = Take(indices, train_size)
                /\ test_idx' = Drop(indices, train_size)
    /\ op' = "train_test_split"
    /\ UNCHANGED <<hvg_vars, le_vars, ck_vars, norm_vars>>

\* ---------------------------------------------------------- label_encoder
\* The condition values, in the order np.unique sorts them.
ConditionOrder == <<"A", "B", "C">>

Conditions == Range(ConditionOrder)

\* The values the label_encoder argument takes.
NoEncoder == [kind |-> "None"]

DictEncoder(d) == [kind |-> "dict", items |-> d]

FittedEncoder(id) == [kind |-> "LabelEncoder", id |-> id]

\* np.zeros(adata.shape[0])
ones(n) == [i \in 1..n |-> 1]

zeros(n) == [i \in 1..n |-> 0]

\* for condition, label in d.items(): labels[obs == condition] = label
RECURSIVE DictAssign(_, _, _, _)
DictAssign(labels, obs, d, keys) ==
    IF keys = {} THEN labels
    ELSE LET condition == CHOOSE c \in keys : TRUE
             assigned == [i \in 1..Len(obs) |->
                            IF obs[i] = condition THEN d[condition] ELSE labels[i]]
         IN DictAssign(assigned, obs, d, keys \ {condition})

\* LabelEncoder.fit: classes_ = np.unique(y), the sorted distinct values.
unique(obs) ==
    LET present == {c \in Conditions : c \in Range(obs)}
        P(c) == c \in present
    IN SelectSeq(ConditionOrder, P)

IndexOf(classes, c) == CHOOSE i \in 1..Len(classes) : classes[i] = c

\* LabelEncoder.transform: the position of each value in classes_, a
\* ValueError on a value that is not among them; classes_ is left alone.
Refit(classes, obs) ==
    [classes |-> unique(obs), raised |-> FALSE,
     labels |-> [i \in 1..Len(obs) |-> IndexOf(unique(obs), obs[i]) - 1]]

Transform(classes, obs) ==
    IF Range(obs) \subseteq Range(classes)
       THEN [classes |-> classes, raised |-> FALSE,
             labels |-> [i \in 1..Len(obs) |-> IndexOf(classes, obs[i]) - 1]]
       ELSE [classes |-> classes, raised |-> TRUE, labels |-> <<>>]

ObsColumns == UNION {[1..n -> Conditions] : n \in 0..MaxLabelRows}

Dicts == UNION {[K -> 0..MaxCode] : K \in SUBSET Conditions}

Returns(labels, encoder) == [raised |-> FALSE, labels |-> labels, encoder |-> encoder]

Raises == [raised |-> TRUE]

\* label_encoder(adata, label_encoder) with a dict
label_encoder_dict ==
    /\ op = "idle"
    /\ \E obs \in ObsColumns, d \in Dicts :
          /\ le_obs' = obs
          /\ le_arg' = DictEncoder(d)
          /\ le_ret' = Returns(DictAssign(zeros(Len(obs)), obs, d, DOMAIN d),
                               DictEncoder(d))
    /\ op' = "label_encoder"
    /\ UNCHANGED <<le_fit, encoders>>
    /\ UNCHANGED <<hvg_vars, tts_vars, ck_vars, norm_vars>>

\* label_encoder(adata, None): a new LabelEncoder, fit_transform
label_encoder_fit ==
    /\ op = "idle"
    /\ \E obs \in ObsColumns :
          LET id == Len(encoders) + 1
              fitted == Transform(unique(obs), obs)
          IN /\ le_obs' = obs
             /\ le_arg' = NoEncoder
             /\ encoders' = Append(encoders, fitted.classes)
             /\ le_ret' = Returns(fitted.labels, FittedEncoder(id))
             /\ le_fit' = [obs |-> obs, labels |-> fitted.labels,
                           encoder |-> FittedEncoder(id), classes |-> fitted.classes]
    /\ op' = "label_encoder"
    /\ UNCHANGED <<hvg_vars, tts_vars, ck_vars, norm_vars>>

\* label_encoder(adata, encoder) with the encoder an earlier call returned
label_encoder_transform ==
    /\ op = "label_encoder"
    /\ le_arg = NoEncoder
    /\ \E obs \in ObsColumns, id \in 1..Len(encoders) :
          LET t == Transform(encoders[id], obs)
          IN /\ le_obs' = obs
             /\ le_arg' = FittedEncoder(id)
             /\ encoders' = [encoders EXCEPT ![id] = t.classes]
             /\ le_ret' = IF t.raised THEN Raises
                          ELSE Returns(t.labels, FittedEncoder(id))
    /\ UNCHANGED <<op, le_fit>>
    /\ UNCHANGED <<hvg_vars, tts_vars, ck_vars, norm_vars>>

\* --------------------------------------------------------- compute_kernel
Kernels == {"rbf", "raphy", "multi-scale-rbf", "linear", "RBF", ""}

Tensor(branch, x_size, y_size) ==
    [kind |-> "Tensor", kernel |-> branch, shape |-> <<x_size, y_size>>]

None == [kind |-> "None"]

\* The if/elif chain of compute_kernel: each branch returns a tensor of shape
\* [x_size, y_size]; no branch, no return statement.
ComputeKernelDefaultRbf(kernel, x_size, y_size) ==
    IF kernel \in {"raphy", "multi-scale-rbf"}
       THEN Tensor(kernel, x_size, y_size)
       ELSE Tensor("rbf", x_size, y_size)

ComputeKernel(kernel, x_size, y_size) ==
    IF kernel = "rbf" THEN Tensor("rbf", x_size, y_size)
    ELSE IF kernel = "raphy" THEN Tensor("raphy", x_size, y_size)
    ELSE IF kernel = "multi-scale-rbf" THEN Tensor("multi-scale-rbf", x_size, y_size)
    ELSE None

compute_kernel ==
    /\ op = "idle"
    /\ \E kernel \in Kernels, x_size \in 1..MaxDim, y_size \in 1..MaxDim :
          /\ ck_args' = [kernel |-> kernel, x_size |-> x_size, y_size |-> y_size]
          /\ ck_ret' = [raised |-> FALSE,
                        value |-> ComputeKernel(kernel, x_size, y_size)]
    /\ op' = "compute_kernel"
    /\ UNCHANGED <<hvg_vars, tts_vars, le_vars, norm_vars>>


\* ------------------------------------------------ hvg_batch, run to its return
\* The lists a whole call of hvg_batch can return (none when the loop is still
\* running MaxBelow levels below 0).
RECURSIVE HvgRun(_, _, _, _)
HvgRun(v, nb, target, h) ==
    IF h.pc = "done" THEN {h.hvg}
    ELSE IF h.not_n_batches >= nb + MaxBelow THEN {}
    ELSE UNION {HvgRun(v, nb, target, h2) : h2 \in HvgLoopBody(v, nb, target, h)}

HvgBatchReturns(v, nb, target) ==
    UNION {HvgRun(v, nb, target, h) : h \in HvgEntry(v, nb, target)}

\* What hvg_batch can return for a matrix of g genes, over every table the
\* statistics routine can produce for them: positions in adata.var.
HvgReturnsFor == [g \in 0..MaxVars |-> [target \in 0..MaxVars |->
    UNION {UNION {HvgBatchReturns(v, nb, target) : v \in [1..g -> VarRows(nb)]} :
              nb \in 1..MaxBatches}]]

\* -------------------------------------------------------------- normalize
\* The counts of the matrices normalize is run on: what the filters look at is
\* whether a total reaches min_counts = 1.
Counts == {0, 1}

RECURSIVE Sum(_, _)
Sum(f, S) == IF S = {} THEN 0
             ELSE LET x == CHOOSE y \in S : TRUE IN f[x] + Sum(f, S \ {x})

\* total count of a gene over the cells held, of a cell over the genes held
GeneCounts(m, obs_names, gene) ==
    Sum([c \in Range(obs_names) |-> m[c][gene]], Range(obs_names))

CellCounts(m, var_names, cell) ==
    Sum([g \in Range(var_names) |-> m[cell][g]], Range(var_names))

\* sc.pp.filter_genes(adata, min_counts): the genes of total count >= min_counts
filter_genes(m, a, min_counts) ==
    LET keep(g) == GeneCounts(m, a.obs_names, g) >= min_counts
    IN [a EXCEPT !.var_names = SelectSeq(a.var_names, keep)]

\* sc.pp.filter_cells(adata, min_counts): the cells of total count >= min_counts
filter_cells_none(m, a, min_counts) == a

filter_cells(m, a, min_counts) ==
    LET keep(c) == CellCounts(m, a.var_names, c) >= min_counts
    IN [a EXCEPT !.obs_names = SelectSeq(a.obs_names, keep)]

\* adata[:, genes]
Columns(a, genes) == [a EXCEPT !.var_names = genes]

Matrices == UNION {[1..n -> [1..g -> Counts]] : n \in 1..MaxCells, g \in 1..MaxVars}

NormArgs == [filter_min_counts : BOOLEAN, size_factors : BOOLEAN,
             logtrans_input : BOOLEAN, n_top_genes : 0..MaxVars]

\* normalize(adata, ...): the call, up to the first stage
normalize ==
    /\ op = "idle"
    /\ \E m \in Matrices, args \in NormArgs :
          /\ X' = m
          /\ norm_args' = args
          /\ adata' = [obs_names |-> [i \in 1..Len(m) |-> i],
                       var_names |-> [i \in 1..Len(m[1]) |-> i],
                       applied |-> <<>>, size_factors |-> "unset", raw |-> None]
          /\ norm_pc' = IF args.filter_min_counts THEN "filter_genes" ELSE "copy"
    /\ op' = "normalize"
    /\ UNCHANGED adata_count
    /\ UNCHANGED <<hvg_vars, tts_vars, le_vars, ck_vars>>

\* line 60
normalize_filter_genes ==
    /\ op = "normalize"
    /\ norm_pc = "filter_genes"
    /\ adata' = filter_genes(X, adata, 1)
    /\ norm_pc' = "filter_cells"
    /\ UNCHANGED <<op, norm_args, X, adata_count>>
    /\ UNCHANGED <<hvg_vars, tts_vars, le_vars, ck_vars>>

\* line 61
normalize_filter_cells ==
    /\ op = "normalize"
    /\ norm_pc = "filter_cells"
    /\ adata' = filter_cells(X, adata, 1)
    /\ norm_pc' = "copy"
    /\ UNCHANGED <<op, norm_args, X, adata_count>>
    /\ UNCHANGED <<hvg_vars, tts_vars, le_vars, ck_vars>>

\* line 63: adata_count = adata.copy()
normalize_copy ==
    /\ op = "normalize"
    /\ norm_pc = "copy"
    /\ adata_count' = [obs_names |-> adata.obs_names, var_names |-> adata.var_names]
    /\ norm_pc' = "size_factors"
    /\ UNCHANGED <<op, norm_args, X, adata>>
    /\ UNCHANGED <<hvg_vars, tts_vars, le_vars, ck_vars>>

\* lines 65-69: normalize_total, or size factors of 1.0
normalize_size_factors ==
    /\ op = "normalize"
    /\ norm_pc = "size_factors"
    /\ adata' = IF norm_args.size_factors
                   THEN [adata EXCEPT !.applied = Append(@, "normalize_total"),
                                      !.size_factors = "normalize_total"]
                   ELSE [adata EXCEPT !.size_factors = "1.0"]
    /\ norm_pc' = "log1p"
    /\ UNCHANGED <<op, norm_args, X, adata_count>>
    /\ UNCHANGED <<hvg_vars, tts_vars, le_vars, ck_vars>>

\* lines 71-72
normalize_log1p ==
    /\ op = "normalize"
    /\ norm_pc = "log1p"
    /\ adata' = IF norm_args.logtrans_input
                   THEN [adata EXCEPT !.applied = Append(@, "log1p")]
                   ELSE adata
    /\ norm_pc' = "hvg"
    /\ UNCHANGED <<op, norm_args, X, adata_count>>
    /\ UNCHANGED <<hvg_vars, tts_vars, le_vars, ck_vars>>

\* lines 74-79: the reduction to the genes hvg_batch returns
normalize_hvg ==
    /\ op = "normalize"
    /\ norm_pc = "hvg"
    /\ IF norm_args.n_top_genes > 0 /\ Len(adata.var_names) > norm_args.n_top_genes
          THEN \E positions \in HvgReturnsFor[Len(adata.var_names)][norm_args.n_top_genes] :
                  LET genes == [i \in 1..Len(positions) |-> adata.var_names[positions[i]]]
                  IN /\ adata' = [Columns(adata, genes) EXCEPT
                                     !.applied = Append(@, "hvg_batch")]
                     /\ adata_count' = Columns(adata_count, genes)
          ELSE UNCHANGED <<adata, adata_count>>
    /\ norm_pc' = "raw"
    /\ UNCHANGED <<op, norm_args, X>>
    /\ UNCHANGED <<hvg_vars, tts_vars, le_vars, ck_vars>>

\* lines 81-92: both matrices made dense, adata.raw set, adata returned
normalize_return ==
    /\ op = "normalize"
    /\ norm_pc = "raw"
    /\ adata' = [adata EXCEPT !.raw = adata_count]
    /\ norm_pc' = "done"
    /\ UNCHANGED <<op, norm_args, X, adata_count>>
    /\ UNCHANGED <<hvg_vars, tts_vars, le_vars, ck_vars>>

\* ------------------------------------------------------------------ system
Init ==
    /\ op = "idle"
    /\ var = <<>>
    /\ n_batches = 0
    /\ target_genes = 0
    /\ hvg = <<>>
    /\ not_n_batches = 0
    /\ enough = FALSE
    /\ hvg_pc = "idle"
    /\ n_rows = 0
    /\ train_frac = <<0, FracDen>>
    /\ train_idx = <<>>
    /\ test_idx = <<>>
    /\ le_obs = <<>>
    /\ le_arg = NoEncoder
    /\ le_ret = Raises
    /\ le_fit = NoEncoder
    /\ encoders = <<>>
    /\ ck_args = None
    /\ ck_ret = None
    /\ norm_args = None
    /\ X = <<>>
    /\ adata = None
    /\ adata_count = None
    /\ norm_pc = "idle"

Next ==
    \/ hvg_batch
    \/ hvg_batch_while
    \/ train_test_split
    \/ label_encoder_dict
    \/ label_encoder_fit
    \/ label_encoder_transform
    \/ compute_kernel
    \/ normalize
    \/ normalize_filter_genes
    \/ normalize_filter_cells
    \/ normalize_copy
    \/ normalize_size_factors
    \/ normalize_log1p
    \/ normalize_hvg
    \/ normalize_return

Spec == Init /\ [][Next]_vars

\* ------------------------------------------------------------ claims: hvg_batch
NGenes == Len(var)

Returned == op = "hvg_batch" /\ hvg_pc = "done"

Disp(i) == var[i].dispersions_norm

NBatches(i) == var[i].highly_variable_nbatches

Selected == Range(hvg)

AllBatch == {i \in 1..NGenes : NBatches(i) = n_batches}

AtLevel(l) == {i \in 1..NGenes : NBatches(i) = l}

Above(l) == {i \in 1..NGenes : NBatches(i) > l}

NoDuplicates == \A i, j \in 1..Len(hvg) : i # j => hvg[i] # hvg[j]

\* The first level below the all-batch one whose pool covers what is still
\* missing once every higher level has been taken whole.
Covers(l) == Cardinality(Above(l)) + Cardinality(AtLevel(l)) >= target_genes

FillLevel == CHOOSE l \in 0..(n_batches - 1) :
                Covers(l) /\ \A m \in (l + 1)..(n_batches - 1) : ~Covers(m)

\* C1: whenever hvg_batch returns, the list holds exactly target_genes genes;
\* a shorter list can only come from a universe of fewer than target_genes genes.
C1_LengthIsTarget ==
    Returned =>
        /\ Len(hvg) <= target_genes
        /\ Len(hvg) < target_genes => NGenes < target_genes
        /\ NoDuplicates

C1_Witness ==
    /\ Returned
    /\ enough
    /\ target_genes = 3
    /\ Len(hvg) = 3
    /\ not_n_batches = 2

\* C2: with fewer all-batch genes than target_genes, the result holds every gene
\* of the levels above the fill level, exactly the missing number of genes of the
\* fill level, those of highest dispersion, and no gene of a lower level.
C2_FallbackSelection ==
    (Returned /\ Cardinality(AllBatch) < target_genes) =>
        LET l == FillLevel
            deficit == target_genes - Cardinality(Above(l))
        IN /\ NoDuplicates
           /\ Above(l) \subseteq Selected
           /\ Selected \subseteq (Above(l) \cup AtLevel(l))
           /\ Cardinality(Selected \cap AtLevel(l)) = deficit
           /\ \A i \in Selected \cap AtLevel(l) : \A j \in AtLevel(l) \ Selected :
                 Disp(i) >= Disp(j)
           /\ \A i \in Selected : \A j \in (1..NGenes) \ Selected :
                 NBatches(j) <= NBatches(i)

\* one level taken whole below the all-batch one, then the best gene of the
\* next level, which stands last in the table
C2_Witness ==
    /\ Returned
    /\ n_batches = 2
    /\ NGenes = 3
    /\ target_genes = 2
    /\ NBatches(1) = 0 /\ NBatches(2) = 1 /\ NBatches(3) = 0
    /\ Disp(3) > Disp(1)
    /\ hvg = <<2, 3>>

\* C3: with at least target_genes all-batch genes (equality included), the
\* result is the target_genes all-batch genes of highest dispersion, in
\* descending order of dispersion, and nothing else.
C3_AllBatchTruncation ==
    (Returned /\ Cardinality(AllBatch) >= target_genes) =>
        /\ Len(hvg) = target_genes
        /\ NoDuplicates
        /\ Selected \subseteq AllBatch
        /\ \A i, j \in 1..Len(hvg) : i < j => Disp(hvg[i]) >= Disp(hvg[j])
        /\ \A i \in Selected : \A j \in AllBatch \ Selected : Disp(i) >= Disp(j)

\* equality: two all-batch genes for a target of two, out of table order, and a
\* lower-level gene of higher dispersion left out
C3_Witness ==
    /\ Returned
    /\ NGenes = 3
    /\ target_genes = 2
    /\ Cardinality(AllBatch) = 2
    /\ NBatches(1) < n_batches
    /\ Disp(1) > Disp(2)
    /\ Disp(3) > Disp(2)
    /\ hvg = <<3, 2>>

\* C4: with fewer genes than target_genes, hvg_batch returns the short list once
\* every level down to 0 has been taken: it is never found still looping below
\* level 0.
C4_ReturnsShortList ==
    (op = "hvg_batch" /\ NGenes < target_genes /\ hvg_pc = "loop") =>
        n_batches - not_n_batches >= 0

\* the genes at the level the loop is about to query and below it
Remaining == {i \in 1..NGenes : NBatches(i) <= n_batches - not_n_batches}

\* C10: with at least target_genes genes, the loop never queries a level below
\* 0 (not_n_batches stays within n_batches), and while it runs the genes it has
\* not yet looked at cover the deficit, so that it ends at level 0 at the latest.
C10_LoopStaysAboveZero ==
    (op = "hvg_batch" /\ NGenes >= target_genes) =>
        /\ not_n_batches <= n_batches
        /\ hvg_pc = "loop" =>
              /\ n_batches - not_n_batches >= 0
              /\ Cardinality(Remaining) >= target_genes - Len(hvg)
              /\ ENABLED hvg_batch_while

\* the loop at level 0 with genes still missing
C10_Witness ==
    /\ op = "hvg_batch"
    /\ hvg_pc = "loop"
    /\ NGenes >= target_genes
    /\ n_batches = 2
    /\ not_n_batches = n_batches
    /\ Len(hvg) < target_genes

\* ------------------------------------------------------ claims: the helpers
\* floor(n_rows * train_frac), stated without the division
FloorOfProduct ==
    CHOOSE m \in 0..n_rows :
        /\ m * train_frac[2] <= n_rows * train_frac[1]
        /\ n_rows * train_frac[1] < (m + 1) * train_frac[2]

C6_TransformReusesFit ==
    (/\ op = "label_encoder"
     /\ le_arg.kind = "LabelEncoder"
     /\ Range(le_obs) \subseteq Range(le_fit.obs)) =>
        /\ le_fit.encoder.kind = "LabelEncoder"
        /\ Range(le_fit.classes) = Range(le_fit.obs)
        /\ le_arg = le_fit.encoder
        /\ ~le_ret.raised
        /\ le_ret.encoder = le_fit.encoder
        /\ encoders[le_ret.encoder.id] = le_fit.classes
        /\ Len(le_ret.labels) = Len(le_obs)
        /\ \A i \in 1..Len(le_obs) : \A j \in 1..Len(le_fit.obs) :
              le_obs[i] = le_fit.obs[j] => le_ret.labels[i] = le_fit.labels[j]

C6_Witness ==
    /\ op = "label_encoder"
    /\ le_arg.kind = "LabelEncoder"
    /\ Range(le_fit.obs) = {"A", "B", "C"}
    /\ le_obs = <<"C", "B">>
    /\ ~le_ret.raised
    /\ le_ret.labels = <<2, 1>>

\* C7: with a mapping, a row whose condition is a key gets the key's code, any
\* other row stays at 0, nothing is raised and the mapping comes back as it was.
C7_DictLookupDefaultsToZero ==
    (op = "label_encoder" /\ le_arg.kind = "dict") =>
        /\ ~le_ret.raised
        /\ le_ret.encoder = le_arg
        /\ Len(le_ret.labels) = Len(le_obs)
        /\ \A i \in 1..Len(le_obs) :
              le_ret.labels[i] = IF le_obs[i] \in DOMAIN le_arg.items
                                    THEN le_arg.items[le_obs[i]] ELSE 0

C7_Witness ==
    /\ op = "label_encoder"
    /\ le_arg.kind = "dict"
    /\ DOMAIN le_arg.items = {"A", "C"}
    /\ le_arg.items["A"] = 2
    /\ le_obs = <<"B", "A", "B">>
    /\ le_ret.labels = <<0, 2, 0>>

\* C8: with filter_min_counts, nothing else has run while the filters run
\* (genes first, with every cell still there); from then on no gene and no cell
\* that was all zero in the input is left, and right after the filter stage no
\* remaining row and no remaining column has total count zero.
InFilter == norm_pc \in {"filter_genes", "filter_cells"}

C8_FilterRunsFirst ==
    (op = "normalize" /\ norm_args.filter_min_counts) =>
        /\ InFilter =>
              /\ adata_count = None
              /\ adata.applied = <<>>
              /\ adata.size_factors = "unset"
        /\ norm_pc = "filter_cells" =>
              /\ Len(adata.obs_names) = Len(X)
              /\ \A g \in Range(adata.var_names) : \E c \in 1..Len(X) : X[c][g] > 0
        /\ ~InFilter =>
              /\ \A g \in Range(adata.var_names) : \E c \in 1..Len(X) : X[c][g] > 0
              /\ \A c \in Range(adata.obs_names) : \E g \in 1..Len(X[c]) : X[c][g] > 0
        /\ norm_pc = "copy" =>
              /\ \A g \in Range(adata.var_names) :
                    GeneCounts(X, adata.obs_names, g) > 0
              /\ \A c \in Range(adata.obs_names) :
                    CellCounts(X, adata.var_names, c) > 0

\* a matrix with an all-zero row and an all-zero column, both gone at the copy
C8_Witness ==
    /\ op = "normalize"
    /\ norm_args.filter_min_counts
    /\ norm_pc = "copy"
    /\ X = <<(<<1, 0>>), (<<0, 0>>)>>
    /\ adata.obs_names = <<1>>
    /\ adata.var_names = <<1>>

\* C9: a kernel name other than the three known ones raises nothing and
\* returns None.
C9_UnknownKernelReturnsNone ==
    (op = "compute_kernel"
        /\ ck_args.kernel \notin {"rbf", "raphy", "multi-scale-rbf"}) =>
        /\ ~ck_ret.raised
        /\ ck_ret.value = None

C9_Witness ==
    /\ op = "compute_kernel"
    /\ ck_args.kernel = "linear"
    /\ ck_ret.value = None

====
